---- MODULE Spec2Model ----
(***************************************************************************)
(* Monitoring-and-alerting engine of longbark-maintenance.                 *)
(*                                                                         *)
(* The model covers the Celery beat driver (check_all_sites), the Celery   *)
(* workers that run check_site and send_alert_notifications, the alert     *)
(* deduplication in create_alert, the alert lifecycle handlers of the HTTP *)
(* API (acknowledge_alert, resolve_alert, delete_alert) and the retention  *)
(* sweeper (cleanup_old_data).  Storage is the PostgreSQL database reached *)
(* through SQLAlchemy sessions: every handler works on the rows it loaded  *)
(* and writes back, at commit, the columns it changed.                     *)
(***************************************************************************)
EXTENDS Integers, Sequences, FiniteSets, TLC

(***************************************************************************)
(* Bounds of the model.                                                    *)
(***************************************************************************)
\* number of Alert rows ever inserted
MaxAlerts == 2
\* number of tasks waiting in the broker queue
MaxQueue == 2
\* number of beat-period clock steps
MaxSmallSteps == 1
\* number of retention-sized clock jumps
MaxBigSteps == 1
\* number of tasks and API requests in progress at the same time
MaxBusy == 2

(***************************************************************************)
(* Program constants.                                                      *)
(***************************************************************************)
BEAT_SCHEDULE == 300
DEFAULT_CHECK_INTERVAL == 300
SSL_WARNING_DAYS == 30
PERFORMANCE_THRESHOLD == 3000
SEO_SCORE_THRESHOLD == 50
RESULT_RETENTION_DAYS == 90
ALERT_RETENTION_DAYS == 30
DaySeconds == 86400

\* the clock is observed once per beat period, and after a jump of one day
\* more than the alert retention horizon
TimeStep == BEAT_SCHEDULE
BigStep == (ALERT_RETENTION_DAYS + 1) * DaySeconds

(***************************************************************************)
(* Nullable columns and Python truthiness.                                 *)
(***************************************************************************)
NULL == << >>
Some(x) == << x >>
Val(o) == o[1]
\* Python: "if x" on an Optional[int]
Truthy(o) == o # NULL /\ Val(o) # 0

(***************************************************************************)
(* Enumerations (models/alert.py, models/site.py).                         *)
(***************************************************************************)
OPEN == "open"
ACKNOWLEDGED == "acknowledged"
RESOLVED == "resolved"
AlertStatus == {OPEN, ACKNOWLEDGED, RESOLVED}

ACTIVE == "active"
PAUSED == "paused"

INFO == "info"
WARNING == "warning"
CRITICAL == "critical"

\* the six probes in the order check_site runs them; the name of a probe is
\* also the AlertType value of the alert it raises
Kinds == << "uptime", "ssl", "performance", "broken_links", "wordpress", "seo" >>
KindSet == {Kinds[i] : i \in 1..Len(Kinds)}

SiteIds == {1, 2}
Workers == {"w1", "w2"}
Users == {1, 2}

VARIABLES
    now,          \* datetime.utcnow(), in seconds
    last_run_at,  \* beat: time of the last check_all_sites run (NULL: never)
    sites,        \* table sites: id -> row
    alerts,       \* table alerts: id -> row
    next_alert_id,\* the alerts.id sequence
    checks,       \* the six check-result tables, as one set of rows
    queue,        \* the broker queue of Celery tasks
    workers,      \* per worker: the task it runs and where it is in it
    reqs,         \* per API user: the request in flight and the last response
    enqueued,     \* number of send_alert_notifications tasks ever enqueued
    probe         \* the probe call in progress, outside check_site's tables

vars == << now, last_run_at, sites, alerts, next_alert_id, checks, queue,
           workers, reqs, enqueued, probe >>

(***************************************************************************)
(* Rows.                                                                   *)
(***************************************************************************)
\* models/site.py: the columns of Site the engine reads and writes; https
\* stands for site.url.startswith('https')
SiteRow(st, interval, https, up, ssl, perf, links, wp, seo) ==
    [ status |-> st, check_interval |-> interval, https |-> https,
      last_checked_at |-> NULL,
      uptime_enabled |-> up, ssl_enabled |-> ssl, performance_enabled |-> perf,
      broken_links_enabled |-> links, wordpress_checks_enabled |-> wp,
      seo_enabled |-> seo ]

\* the enable flag of a probe kind
EnabledFlag(site, kind) ==
    CASE kind = "uptime" -> site.uptime_enabled
      [] kind = "ssl" -> site.ssl_enabled
      [] kind = "performance" -> site.performance_enabled
      [] kind = "broken_links" -> site.broken_links_enabled
      [] kind = "wordpress" -> site.wordpress_checks_enabled
      [] kind = "seo" -> site.seo_enabled

\* models/alert.py: a new Alert row as create_alert builds it; the columns
\* left out of the constructor take their defaults
NewAlert(site_id, alert_type, severity) ==
    [ site_id |-> site_id, alert_type |-> alert_type, severity |-> severity,
      status |-> OPEN,
      email_sent |-> FALSE, email_sent_at |-> NULL,
      ntfy_sent |-> FALSE, ntfy_sent_at |-> NULL,
      resolved_at |-> NULL, resolved_by |-> NULL, resolution_notes |-> NULL,
      acknowledged_at |-> NULL ]

AlertColumns == { "site_id", "alert_type", "severity", "status", "email_sent",
                  "email_sent_at", "ntfy_sent", "ntfy_sent_at", "resolved_at",
                  "resolved_by", "resolution_notes", "acknowledged_at" }

\* SQLAlchemy flush: the UPDATE sets the columns whose value differs from
\* the value loaded into the session, and leaves every other column of the
\* stored row as it is
WriteBack(stored, loaded, changed) ==
    [ c \in AlertColumns |->
        IF changed[c] # loaded[c] THEN changed[c] ELSE stored[c] ]

(***************************************************************************)
(* Workers and API requests.                                               *)
(***************************************************************************)
IdleWorker == [ task |-> "idle", pc |-> "idle", arg |-> 0, k |-> 0, errs |-> FALSE ]
IdleReq == [ op |-> "idle", pc |-> "idle", alert_id |-> 0, code |-> 0,
             loaded |-> NULL, notes |-> NULL ]

\* the tasks and requests in progress
Busy ==
    Cardinality({ w \in Workers : workers[w].task # "idle" })
      + Cardinality({ u \in Users : reqs[u].op # "idle" })

CheckSiteTask(site_id) == [ name |-> "check_site", arg |-> site_id ]
NotifyTask(alert_id) == [ name |-> "send_alert_notifications", arg |-> alert_id ]

\* no probe call in progress
NoProbe == [ call |-> "none" ]

(***************************************************************************)
(* Initial state: two sites registered, nothing checked yet.               *)
(***************************************************************************)
Init ==
    /\ now = 0
    /\ last_run_at = NULL
    /\ \E st \in {ACTIVE, PAUSED}, ssl \in BOOLEAN :
         sites = ( 1 :> SiteRow(ACTIVE, DEFAULT_CHECK_INTERVAL, TRUE,
                                TRUE, ssl, FALSE, FALSE, FALSE, FALSE)
                @@ 2 :> SiteRow(st, 2 * DEFAULT_CHECK_INTERVAL, FALSE,
                                TRUE, TRUE, FALSE, FALSE, FALSE, FALSE) )
    /\ alerts = << >>
    /\ next_alert_id = 1
    /\ checks = {}
    /\ queue = << >>
    /\ workers = [ w \in Workers |-> IdleWorker ]
    /\ reqs = [ u \in Users |-> IdleReq ]
    /\ enqueued = 0
    /\ probe = NoProbe

(***************************************************************************)
(* Probes: the outcomes a probe can return, reduced to the fields that     *)
(* check_site reads, and the condition under which check_site raises an    *)
(* alert for the result.                                                   *)
(***************************************************************************)
ERR == Some("error")

ProbeResults(kind) ==
    CASE kind = "uptime" ->
           { [ is_up |-> TRUE, error_message |-> NULL ],
             [ is_up |-> FALSE, error_message |-> ERR ] }
      [] kind = "ssl" ->
           { [ is_valid |-> TRUE, days_until_expiry |-> Some(45), error_message |-> NULL ],
             [ is_valid |-> TRUE, days_until_expiry |-> Some(10), error_message |-> ERR ],
             [ is_valid |-> TRUE, days_until_expiry |-> Some(0), error_message |-> ERR ],
             [ is_valid |-> FALSE, days_until_expiry |-> Some(0 - 1), error_message |-> ERR ],
             [ is_valid |-> FALSE, days_until_expiry |-> NULL, error_message |-> ERR ] }
      [] kind = "performance" ->
           { [ load_time |-> Some(PERFORMANCE_THRESHOLD), error_message |-> NULL ],
             [ load_time |-> Some(PERFORMANCE_THRESHOLD + 1), error_message |-> NULL ],
             [ load_time |-> NULL, error_message |-> ERR ] }
      [] kind = "broken_links" ->
           { [ broken_links |-> 0, total_links |-> 0, error_message |-> ERR ],
             [ broken_links |-> 0, total_links |-> 1, error_message |-> NULL ],
             [ broken_links |-> 1, total_links |-> 1, error_message |-> NULL ] }
      [] kind = "wordpress" ->
           { [ wp_update_available |-> u, plugins_need_update |-> p,
               themes_need_update |-> t, error_message |-> NULL ] :
               u \in BOOLEAN, p \in {0, 1}, t \in {0, 1} }
      [] kind = "seo" ->
           { [ seo_score |-> sc, error_message |-> NULL ] :
               sc \in {0, SEO_SCORE_THRESHOLD - 1, SEO_SCORE_THRESHOLD, 100} }

\* the tests of check_site with the performance threshold included
Problem_AtThreshold(kind, r) ==
    CASE kind = "uptime" -> ~ r.is_up
      [] kind = "ssl" ->
           Truthy(r.days_until_expiry) /\ Val(r.days_until_expiry) < SSL_WARNING_DAYS
      [] kind = "performance" ->
           Truthy(r.load_time) /\ Val(r.load_time) >= PERFORMANCE_THRESHOLD
      [] kind = "broken_links" -> r.broken_links > 0
      [] kind = "wordpress" ->
           r.wp_update_available \/ r.plugins_need_update + r.themes_need_update > 0
      [] kind = "seo" -> r.seo_score < SEO_SCORE_THRESHOLD

\* check_site: the test that follows each save_*_check
Problem(kind, r) ==
    CASE kind = "uptime" -> ~ r.is_up
      [] kind = "ssl" ->
           Truthy(r.days_until_expiry) /\ Val(r.days_until_expiry) < SSL_WARNING_DAYS
      [] kind = "performance" ->
           Truthy(r.load_time) /\ Val(r.load_time) > PERFORMANCE_THRESHOLD
      [] kind = "broken_links" -> r.broken_links > 0
      [] kind = "wordpress" ->
           r.wp_update_available \/ r.plugins_need_update + r.themes_need_update > 0
      [] kind = "seo" -> r.seo_score < SEO_SCORE_THRESHOLD

\* check_site: the severity passed to create_alert for each probe kind
Severity(kind) ==
    CASE kind = "uptime" -> CRITICAL
      [] kind = "wordpress" -> INFO
      [] OTHER -> WARNING

\* save_*_check: the row written for a result, reduced to its table (kind),
\* its site and its checked_at
CheckRow(site_id, kind, t) ==
    [ site_id |-> site_id, kind |-> kind, checked_at |-> t ]

\* check_site entering the block of every probe kind
Runs_Always(site, kind) == kind \in KindSet

\* check_site: whether the block of a probe kind is entered
Runs(site, kind) ==
    EnabledFlag(site, kind) /\ (kind = "ssl" => site.https)

\* index of the first probe block after position k that is entered, or
\* Len(Kinds) + 1 when the run goes on to update last_checked_at
NextKind(site, k) ==
    LET later == { j \in (k + 1)..Len(Kinds) : Runs(site, Kinds[j]) }
    IN  IF later = {} THEN Len(Kinds) + 1
        ELSE CHOOSE j \in later : \A i \in later : j <= i

\* the worker's position after the block at index k is left
Advance(w, k) ==
    LET site == sites[workers[w].arg]
        j == NextKind(site, k)
    IN  [ workers[w] EXCEPT !.pc = IF j > Len(Kinds) THEN "finish" ELSE "probe",
                            !.k = j ]

(***************************************************************************)
(* Time.                                                                   *)
(***************************************************************************)
ClockSteps == {TimeStep, BigStep}

AdvanceClock(d) ==
    /\ d = TimeStep => (now % BigStep) \div TimeStep < MaxSmallSteps
    /\ d = BigStep => now \div BigStep < MaxBigSteps
    /\ now' = now + d
    /\ UNCHANGED << last_run_at, sites, alerts, next_alert_id, checks, queue,
                    workers, reqs, enqueued, probe >>

(***************************************************************************)
(* Scheduler: Celery beat runs check_all_sites every BEAT_SCHEDULE seconds.*)
(***************************************************************************)
\* should_check_site with a strict comparison
should_check_site_Strict(site) ==
    IF site.last_checked_at = NULL THEN TRUE
    ELSE now - Val(site.last_checked_at) > site.check_interval

should_check_site(site) ==
    IF site.last_checked_at = NULL THEN TRUE
    ELSE now - Val(site.last_checked_at) >= site.check_interval

\* the ids of a set in ascending order
RECURSIVE Ascending(_)
Ascending(S) ==
    IF S = {} THEN << >>
    ELSE LET m == CHOOSE x \in S : \A y \in S : x <= y
         IN  << m >> \o Ascending(S \ {m})

\* the check_site tasks one run of check_all_sites sends to the broker
Dispatched ==
    LET due == { s \in DOMAIN sites :
                   sites[s].status = ACTIVE /\ should_check_site(sites[s]) }
        ids == Ascending(due)
    IN  [ i \in 1..Len(ids) |-> CheckSiteTask(ids[i]) ]

\* check_all_sites that dispatches only while a worker is free and leaves
\* the due sites to the next beat otherwise
check_all_sites_Deferring ==
    /\ IF last_run_at = NULL THEN TRUE
       ELSE now - Val(last_run_at) >= BEAT_SCHEDULE
    /\ Len(queue) + Len(Dispatched) <= MaxQueue
    /\ queue' = IF \E w \in Workers : workers[w].task = "idle"
                THEN queue \o Dispatched ELSE queue
    /\ last_run_at' = Some(now)
    /\ UNCHANGED << now, sites, alerts, next_alert_id, checks, workers, reqs,
                    enqueued, probe >>

check_all_sites ==
    /\ IF last_run_at = NULL THEN TRUE
       ELSE now - Val(last_run_at) >= BEAT_SCHEDULE
    /\ Len(queue) + Len(Dispatched) <= MaxQueue
    /\ queue' = queue \o Dispatched
    /\ last_run_at' = Some(now)
    /\ UNCHANGED << now, sites, alerts, next_alert_id, checks, workers, reqs,
                    enqueued, probe >>

\* check_all_sites whose loop raises at the due site after the first n: the
\* n tasks already sent stay in the broker, the except around the whole
\* loop logs the error and the run ends
check_all_sites_error(n) ==
    /\ IF last_run_at = NULL THEN TRUE
       ELSE now - Val(last_run_at) >= BEAT_SCHEDULE
    /\ n \in 0..(Len(Dispatched) - 1)
    /\ Len(queue) + n <= MaxQueue
    /\ queue' = queue \o SubSeq(Dispatched, 1, n)
    /\ last_run_at' = Some(now)
    /\ UNCHANGED << now, sites, alerts, next_alert_id, checks, workers, reqs,
                    enqueued, probe >>

(***************************************************************************)
(* check_site, run by a worker that took the task from the broker.         *)
(***************************************************************************)
check_site_start(w) ==
    /\ workers[w].task = "idle"
    /\ Busy < MaxBusy
    /\ queue # << >>
    /\ Head(queue).name = "check_site"
    /\ queue' = Tail(queue)
    /\ LET site_id == Head(queue).arg
       IN  workers' =
             [ workers EXCEPT ![w] =
                 IF site_id \notin DOMAIN sites THEN IdleWorker
                 ELSE LET j == NextKind(sites[site_id], 0)
                      IN  [ task |-> "check_site",
                            pc |-> IF j > Len(Kinds) THEN "finish" ELSE "probe",
                            arg |-> site_id, k |-> j, errs |-> FALSE ] ]
    /\ UNCHANGED << now, last_run_at, sites, alerts, next_alert_id, checks,
                    reqs, enqueued, probe >>

\* a probe block whose result is not saved
check_site_probe_NoSave(w, r) ==
    /\ workers[w].task = "check_site"
    /\ workers[w].pc = "probe"
    /\ LET kind == Kinds[workers[w].k]
       IN  /\ r \in ProbeResults(kind)
           /\ workers' =
                [ workers EXCEPT ![w] =
                    LET errs == workers[w].errs \/ r.error_message # NULL
                    IN  IF Problem(kind, r)
                        THEN [ @ EXCEPT !.pc = "create_alert", !.errs = errs ]
                        ELSE [ Advance(w, workers[w].k) EXCEPT !.errs = errs ] ]
    /\ UNCHANGED << now, last_run_at, sites, alerts, next_alert_id, queue,
                    reqs, enqueued, probe, checks >>

\* one probe block: the probe returns r, save_*_check commits the row, and
\* the threshold test decides whether create_alert is called
check_site_probe(w, r) ==
    /\ workers[w].task = "check_site"
    /\ workers[w].pc = "probe"
    /\ LET kind == Kinds[workers[w].k]
       IN  /\ r \in ProbeResults(kind)
           /\ checks' = checks \cup {CheckRow(workers[w].arg, kind, now)}
           /\ workers' =
                [ workers EXCEPT ![w] =
                    LET errs == workers[w].errs \/ r.error_message # NULL
                    IN  IF Problem(kind, r)
                        THEN [ @ EXCEPT !.pc = "create_alert", !.errs = errs ]
                        ELSE [ Advance(w, workers[w].k) EXCEPT !.errs = errs ] ]
    /\ UNCHANGED << now, last_run_at, sites, alerts, next_alert_id, queue,
                    reqs, enqueued, probe >>

\* the query of create_alert without its filter on the status
ExistingAlerts_AnyStatus(site_id, alert_type) ==
    { a \in DOMAIN alerts :
        /\ alerts[a].site_id = site_id
        /\ alerts[a].alert_type = alert_type }

\* create_alert: the rows its query for an existing alert matches
ExistingAlerts(site_id, alert_type) ==
    { a \in DOMAIN alerts :
        /\ alerts[a].site_id = site_id
        /\ alerts[a].alert_type = alert_type
        /\ alerts[a].status = OPEN }

\* create_alert, first half: the query; an existing alert ends the call
create_alert_lookup(w) ==
    /\ workers[w].task = "check_site"
    /\ workers[w].pc = "create_alert"
    /\ workers' =
         [ workers EXCEPT ![w] =
             IF ExistingAlerts(workers[w].arg, Kinds[workers[w].k]) # {}
             THEN Advance(w, workers[w].k)
             ELSE [ @ EXCEPT !.pc = "insert" ] ]
    /\ UNCHANGED << now, last_run_at, sites, alerts, next_alert_id, checks,
                    queue, reqs, enqueued, probe >>

\* create_alert without the send_alert_notifications.delay call
create_alert_insert_NoSignal(w) ==
    /\ workers[w].task = "check_site"
    /\ workers[w].pc = "insert"
    /\ next_alert_id <= MaxAlerts
    /\ Len(queue) < MaxQueue
    /\ LET kind == Kinds[workers[w].k]
       IN  alerts' = alerts @@
             (next_alert_id :> NewAlert(workers[w].arg, kind, Severity(kind)))
    /\ next_alert_id' = next_alert_id + 1
    /\ workers' = [ workers EXCEPT ![w] = Advance(w, workers[w].k) ]
    /\ UNCHANGED << now, last_run_at, sites, checks, reqs, queue, enqueued, probe >>

\* create_alert, second half: insert, commit, send_alert_notifications.delay
create_alert_insert(w) ==
    /\ workers[w].task = "check_site"
    /\ workers[w].pc = "insert"
    /\ next_alert_id <= MaxAlerts
    /\ Len(queue) < MaxQueue
    /\ LET kind == Kinds[workers[w].k]
       IN  alerts' = alerts @@
             (next_alert_id :> NewAlert(workers[w].arg, kind, Severity(kind)))
    /\ next_alert_id' = next_alert_id + 1
    /\ queue' = Append(queue, NotifyTask(next_alert_id))
    /\ enqueued' = enqueued + 1
    /\ workers' = [ workers EXCEPT ![w] = Advance(w, workers[w].k) ]
    /\ UNCHANGED << now, last_run_at, sites, checks, reqs, probe >>

\* the end of a run that sets last_checked_at only when no probe failed
check_site_finish_CleanOnly(w) ==
    /\ workers[w].task = "check_site"
    /\ workers[w].pc = "finish"
    /\ sites' = IF workers[w].errs THEN sites
                ELSE [ sites EXCEPT ![workers[w].arg].last_checked_at = Some(now) ]
    /\ workers' = [ workers EXCEPT ![w] = [ @ EXCEPT !.pc = "done", !.k = 0 ] ]
    /\ UNCHANGED << now, last_run_at, alerts, next_alert_id, checks, queue,
                    reqs, enqueued, probe >>

\* the end of the run: last_checked_at is set and committed
check_site_finish(w) ==
    /\ workers[w].task = "check_site"
    /\ workers[w].pc = "finish"
    /\ sites' = [ sites EXCEPT ![workers[w].arg].last_checked_at = Some(now) ]
    /\ workers' = [ workers EXCEPT ![w] = [ @ EXCEPT !.pc = "done", !.k = 0 ] ]
    /\ UNCHANGED << now, last_run_at, alerts, next_alert_id, checks, queue,
                    reqs, enqueued, probe >>

\* an except block that stamps the site as checked
check_site_error_Stamping(w) ==
    /\ workers[w].task = "check_site"
    /\ workers[w].pc \notin {"error", "done"}
    /\ sites' = [ sites EXCEPT ![workers[w].arg].last_checked_at = Some(now) ]
    /\ workers' = [ workers EXCEPT ![w] = [ @ EXCEPT !.pc = "error", !.k = 0 ] ]
    /\ UNCHANGED << now, last_run_at, alerts, next_alert_id, checks,
                    queue, reqs, enqueued, probe >>

\* a query or commit of the run raises: the except block logs and rolls back
check_site_error(w) ==
    /\ workers[w].task = "check_site"
    /\ workers[w].pc \notin {"error", "done"}
    /\ workers' = [ workers EXCEPT ![w] = [ @ EXCEPT !.pc = "error", !.k = 0 ] ]
    /\ UNCHANGED << now, last_run_at, sites, alerts, next_alert_id, checks,
                    queue, reqs, enqueued, probe >>

\* the finally blocks: the loop and the session are closed, the task ends
check_site_close(w) ==
    /\ workers[w].task = "check_site"
    /\ workers[w].pc \in {"error", "done"}
    /\ workers' = [ workers EXCEPT ![w] = IdleWorker ]
    /\ UNCHANGED << now, last_run_at, sites, alerts, next_alert_id, checks,
                    queue, reqs, enqueued, probe >>

(***************************************************************************)
(* send_alert_notifications, run by a worker.                              *)
(***************************************************************************)
NTFY_ENABLED == TRUE

\* the task loads the alert; a missing alert ends it
send_alert_notifications_start(w) ==
    /\ workers[w].task = "idle"
    /\ Busy < MaxBusy
    /\ queue # << >>
    /\ Head(queue).name = "send_alert_notifications"
    /\ queue' = Tail(queue)
    /\ LET alert_id == Head(queue).arg
       IN  workers' =
             [ workers EXCEPT ![w] =
                 IF alert_id \notin DOMAIN alerts \/ ~ NTFY_ENABLED THEN IdleWorker
                 ELSE [ task |-> "send_alert_notifications", pc |-> "send",
                        arg |-> alert_id, k |-> 0, errs |-> FALSE ] ]
    /\ UNCHANGED << now, last_run_at, sites, alerts, next_alert_id, checks,
                    reqs, enqueued, probe >>

\* send_alert_notifications that puts a failed notification back on the queue
send_alert_notifications_send_Retrying(w, success) ==
    /\ workers[w].task = "send_alert_notifications"
    /\ workers[w].pc = "send"
    /\ LET alert_id == workers[w].arg
       IN  /\ alerts' =
                IF success /\ alert_id \in DOMAIN alerts
                THEN [ alerts EXCEPT ![alert_id].ntfy_sent = TRUE,
                                     ![alert_id].ntfy_sent_at = Some(now) ]
                ELSE alerts
           /\ queue' = IF success THEN queue
                       ELSE Append(queue, NotifyTask(alert_id))
    /\ workers' = [ workers EXCEPT ![w] = IdleWorker ]
    /\ UNCHANGED << now, last_run_at, sites, next_alert_id, checks, reqs,
                    enqueued, probe >>

\* ntfy_service.send_alert returns success; on success the two ntfy columns
\* are written and committed (an UPDATE of a row deleted meanwhile raises
\* and is logged by the except block)
send_alert_notifications_send(w, success) ==
    /\ workers[w].task = "send_alert_notifications"
    /\ workers[w].pc = "send"
    /\ LET alert_id == workers[w].arg
       IN  alerts' =
             IF success /\ alert_id \in DOMAIN alerts
             THEN [ alerts EXCEPT ![alert_id].ntfy_sent = TRUE,
                                  ![alert_id].ntfy_sent_at = Some(now) ]
             ELSE alerts
    /\ workers' = [ workers EXCEPT ![w] = IdleWorker ]
    /\ UNCHANGED << now, last_run_at, sites, next_alert_id, checks, queue,
                    reqs, enqueued, probe >>

(***************************************************************************)
(* Time on the scale of the retention horizons: the clock moves to a later *)
(* day of a calendar that holds the days around the result horizon.        *)
(***************************************************************************)
Calendar ==
    { d * DaySeconds : d \in {0, 2, RESULT_RETENTION_DAYS, RESULT_RETENTION_DAYS + 1} }

AdvanceClockTo(t) ==
    /\ t \in Calendar
    /\ t > now
    /\ now' = t
    /\ UNCHANGED << last_run_at, sites, alerts, next_alert_id, checks, queue,
                    workers, reqs, enqueued, probe >>

\* cleanup_old_data that deletes the old alerts whatever their status
cleanup_old_data_AnyStatus ==
    LET cutoff_date == now - RESULT_RETENTION_DAYS * DaySeconds
        alert_cutoff == now - ALERT_RETENTION_DAYS * DaySeconds
        deleted_alerts ==
          { a \in DOMAIN alerts :
              \/ /\ alerts[a].status = RESOLVED
                 /\ IF alerts[a].resolved_at = NULL THEN FALSE
                    ELSE Val(alerts[a].resolved_at) < alert_cutoff
              \/ /\ alerts[a].status # RESOLVED
                 /\ IF alerts[a].acknowledged_at = NULL THEN FALSE
                    ELSE Val(alerts[a].acknowledged_at) < alert_cutoff }
    IN  /\ checks' = { c \in checks : ~ (c.checked_at < cutoff_date) }
        /\ alerts' = [ a \in DOMAIN alerts \ deleted_alerts |-> alerts[a] ]
        /\ UNCHANGED << now, last_run_at, sites, next_alert_id, queue, workers,
                        reqs, enqueued, probe >>

\* cleanup_old_data that also deletes the results exactly at the horizon
cleanup_old_data_AtHorizon ==
    LET cutoff_date == now - RESULT_RETENTION_DAYS * DaySeconds
        alert_cutoff == now - ALERT_RETENTION_DAYS * DaySeconds
        deleted_alerts ==
          { a \in DOMAIN alerts :
              /\ alerts[a].status = RESOLVED
              /\ IF alerts[a].resolved_at = NULL THEN FALSE
                 ELSE Val(alerts[a].resolved_at) < alert_cutoff }
    IN  /\ checks' = { c \in checks : ~ (c.checked_at <= cutoff_date) }
        /\ alerts' = [ a \in DOMAIN alerts \ deleted_alerts |-> alerts[a] ]
        /\ UNCHANGED << now, last_run_at, sites, next_alert_id, queue, workers,
                        reqs, enqueued, probe >>

(***************************************************************************)
(* cleanup_old_data.                                                       *)
(***************************************************************************)
cleanup_old_data ==
    LET cutoff_date == now - RESULT_RETENTION_DAYS * DaySeconds
        alert_cutoff == now - ALERT_RETENTION_DAYS * DaySeconds
        deleted_alerts ==
          { a \in DOMAIN alerts :
              /\ alerts[a].status = RESOLVED
              /\ IF alerts[a].resolved_at = NULL THEN FALSE
                 ELSE Val(alerts[a].resolved_at) < alert_cutoff }
    IN  /\ checks' = { c \in checks : ~ (c.checked_at < cutoff_date) }
        /\ alerts' = [ a \in DOMAIN alerts \ deleted_alerts |-> alerts[a] ]
        /\ UNCHANGED << now, last_run_at, sites, next_alert_id, queue, workers,
                        reqs, enqueued, probe >>

(***************************************************************************)
(* The alert handlers of the HTTP API.  A handler loads the alert, checks  *)
(* it, and then writes and commits; requests of different users run in     *)
(* different threads and sessions.  A finished request holds its HTTP      *)
(* status in code until the response is returned.                          *)
(***************************************************************************)
AlertIds == 1..MaxAlerts
NotesIn == {NULL, Some("fixed")}

\* verify_alert_access: 0 when the alert is returned, else the HTTP error
verify_alert_access(alert_id, authorized) ==
    IF alert_id \notin DOMAIN alerts THEN 404
    ELSE IF ~ authorized THEN 403
    ELSE 0

Responded(op, alert_id, code) ==
    [ op |-> op, pc |-> "done", alert_id |-> 0, code |-> code,
      loaded |-> NULL, notes |-> NULL ]

Loaded(op, alert_id, notes) ==
    [ op |-> op, pc |-> "write", alert_id |-> alert_id, code |-> 0,
      loaded |-> alerts[alert_id], notes |-> notes ]

\* acknowledge_alert up to its status check
acknowledge_alert(u, alert_id, authorized) ==
    /\ reqs[u].op = "idle"
    /\ Busy < MaxBusy
    /\ LET denied == verify_alert_access(alert_id, authorized)
       IN  reqs' =
             [ reqs EXCEPT ![u] =
                 IF denied # 0 THEN Responded("acknowledge", alert_id, denied)
                 ELSE IF alerts[alert_id].status = RESOLVED
                      THEN Responded("acknowledge", alert_id, 400)
                 ELSE Loaded("acknowledge", alert_id, NULL) ]
    /\ UNCHANGED << now, last_run_at, sites, alerts, next_alert_id, checks,
                    queue, workers, enqueued, probe >>

\* acknowledge_alert from "Update alert status" to the commit
acknowledge_alert_commit(u) ==
    /\ reqs[u].op = "acknowledge"
    /\ reqs[u].pc = "write"
    /\ LET alert_id == reqs[u].alert_id
           changed == [ reqs[u].loaded EXCEPT !.status = ACKNOWLEDGED,
                                              !.acknowledged_at = Some(now) ]
       IN  IF alert_id \in DOMAIN alerts
           THEN /\ alerts' = [ alerts EXCEPT ![alert_id] =
                                 WriteBack(@, reqs[u].loaded, changed) ]
                /\ reqs' = [ reqs EXCEPT ![u] = Responded("acknowledge", alert_id, 200) ]
           ELSE /\ alerts' = alerts
                /\ reqs' = [ reqs EXCEPT ![u] = Responded("acknowledge", alert_id, 500) ]
    /\ UNCHANGED << now, last_run_at, sites, next_alert_id, checks, queue,
                    workers, enqueued, probe >>

\* resolve_alert without the test for an alert that is already resolved
resolve_alert_Again(u, alert_id, authorized, notes) ==
    /\ reqs[u].op = "idle"
    /\ Busy < MaxBusy
    /\ LET denied == verify_alert_access(alert_id, authorized)
       IN  reqs' =
             [ reqs EXCEPT ![u] =
                 IF denied # 0 THEN Responded("resolve", alert_id, denied)
                 ELSE Loaded("resolve", alert_id, notes) ]
    /\ UNCHANGED << now, last_run_at, sites, alerts, next_alert_id, checks,
                    queue, workers, enqueued, probe >>

\* resolve_alert up to its status check
resolve_alert(u, alert_id, authorized, notes) ==
    /\ reqs[u].op = "idle"
    /\ Busy < MaxBusy
    /\ LET denied == verify_alert_access(alert_id, authorized)
       IN  reqs' =
             [ reqs EXCEPT ![u] =
                 IF denied # 0 THEN Responded("resolve", alert_id, denied)
                 ELSE IF alerts[alert_id].status = RESOLVED
                      THEN Responded("resolve", alert_id, 400)
                 ELSE Loaded("resolve", alert_id, notes) ]
    /\ UNCHANGED << now, last_run_at, sites, alerts, next_alert_id, checks,
                    queue, workers, enqueued, probe >>

\* resolve_alert that does not record who resolved the alert
resolve_alert_commit_Anonymous(u) ==
    /\ reqs[u].op = "resolve"
    /\ reqs[u].pc = "write"
    /\ LET alert_id == reqs[u].alert_id
           changed == [ reqs[u].loaded EXCEPT !.status = RESOLVED,
                                              !.resolved_at = Some(now) ]
       IN  IF alert_id \in DOMAIN alerts
           THEN /\ alerts' = [ alerts EXCEPT ![alert_id] =
                                 WriteBack(@, reqs[u].loaded, changed) ]
                /\ reqs' = [ reqs EXCEPT ![u] = Responded("resolve", alert_id, 200) ]
           ELSE /\ alerts' = alerts
                /\ reqs' = [ reqs EXCEPT ![u] = Responded("resolve", alert_id, 500) ]
    /\ UNCHANGED << now, last_run_at, sites, next_alert_id, checks, queue,
                    workers, enqueued, probe >>

\* resolve_alert from "Update alert status" to the commit
resolve_alert_commit(u) ==
    /\ reqs[u].op = "resolve"
    /\ reqs[u].pc = "write"
    /\ LET alert_id == reqs[u].alert_id
           notes == reqs[u].notes
           changed == [ reqs[u].loaded EXCEPT
                          !.status = RESOLVED,
                          !.resolved_at = Some(now),
                          !.resolved_by = Some(u),
                          !.resolution_notes =
                             IF notes # NULL /\ Val(notes) # "" THEN notes ELSE @ ]
       IN  IF alert_id \in DOMAIN alerts
           THEN /\ alerts' = [ alerts EXCEPT ![alert_id] =
                                 WriteBack(@, reqs[u].loaded, changed) ]
                /\ reqs' = [ reqs EXCEPT ![u] = Responded("resolve", alert_id, 200) ]
           ELSE /\ alerts' = alerts
                /\ reqs' = [ reqs EXCEPT ![u] = Responded("resolve", alert_id, 500) ]
    /\ UNCHANGED << now, last_run_at, sites, next_alert_id, checks, queue,
                    workers, enqueued, probe >>

\* delete_alert
delete_alert(u, alert_id, authorized) ==
    /\ reqs[u].op = "idle"
    /\ Busy < MaxBusy
    /\ LET denied == verify_alert_access(alert_id, authorized)
       IN  IF denied # 0
           THEN /\ alerts' = alerts
                /\ reqs' = [ reqs EXCEPT ![u] = Responded("delete", alert_id, denied) ]
           ELSE /\ alerts' = [ a \in DOMAIN alerts \ {alert_id} |-> alerts[a] ]
                /\ reqs' = [ reqs EXCEPT ![u] = Responded("delete", alert_id, 204) ]
    /\ UNCHANGED << now, last_run_at, sites, next_alert_id, checks, queue,
                    workers, enqueued, probe >>

\* the site ids a request may name: the registered ones and a missing one
SiteIdsIn == SiteIds \cup {3}

\* trigger_check: the site is looked up and the permission checked; the
\* accepted request is answered 202 "Check queued successfully" and no task
\* is put on the queue
trigger_check(u, site_id, authorized) ==
    /\ reqs[u].op = "idle"
    /\ Busy < MaxBusy
    /\ reqs' = [ reqs EXCEPT ![u] =
                   IF site_id \notin DOMAIN sites
                   THEN Responded("trigger_check", site_id, 404)
                   ELSE IF ~ authorized
                        THEN Responded("trigger_check", site_id, 403)
                        ELSE Responded("trigger_check", site_id, 202) ]
    /\ UNCHANGED << now, last_run_at, sites, alerts, next_alert_id, checks,
                    queue, workers, enqueued, probe >>

\* the response leaves the server
api_return(u) ==
    /\ reqs[u].pc = "done"
    /\ reqs' = [ reqs EXCEPT ![u] = IdleReq ]
    /\ UNCHANGED << now, last_run_at, sites, alerts, next_alert_id, checks,
                    queue, workers, enqueued, probe >>

(***************************************************************************)
(* The system.                                                             *)
(***************************************************************************)
\* a worker running check_site
Run(w) ==
    \/ check_site_start(w)
    \/ \E r \in UNION { ProbeResults(kd) : kd \in KindSet } : check_site_probe(w, r)
    \/ create_alert_lookup(w)
    \/ create_alert_insert(w)
    \/ check_site_finish(w)
    \/ check_site_close(w)

\* a worker running send_alert_notifications
Notify(w) ==
    \/ send_alert_notifications_start(w)
    \/ \E success \in BOOLEAN : send_alert_notifications_send(w, success)

\* the alert requests of an API user
Api(u) ==
    \/ \E a \in AlertIds, authorized \in BOOLEAN : acknowledge_alert(u, a, authorized)
    \/ acknowledge_alert_commit(u)
    \/ \E a \in AlertIds, authorized \in BOOLEAN, notes \in NotesIn :
          resolve_alert(u, a, authorized, notes)
    \/ resolve_alert_commit(u)
    \/ \E a \in AlertIds, authorized \in BOOLEAN : delete_alert(u, a, authorized)
    \/ api_return(u)

\* the site requests of an API user
SitesApi(u) ==
    \E site_id \in SiteIdsIn, authorized \in BOOLEAN :
       trigger_check(u, site_id, authorized)

Next ==
    \/ \E d \in ClockSteps : AdvanceClock(d)
    \/ check_all_sites
    \/ \E w \in Workers : Run(w) \/ check_site_error(w) \/ Notify(w)
    \/ cleanup_old_data
    \/ \E u \in Users : Api(u)
    \/ \E u \in Users : SitesApi(u)

Spec == Init /\ [][Next]_vars

(***************************************************************************)
(* The scheduler and one worker: beats one period apart over both sites,   *)
(* check_site runs with their probe outcomes and persistence errors.       *)
(***************************************************************************)
InitSched == Init /\ sites[1].ssl_enabled

NextSched ==
    \/ AdvanceClock(TimeStep)
    \/ check_all_sites
    \/ Run("w1")
    \/ check_site_error("w1")
    \/ Notify("w1")

SpecSched == InitSched /\ [][NextSched]_vars

(***************************************************************************)
(* Alert deduplication: check_site runs of one site on two workers, beats  *)
(* one period apart, and one API user acting on the alerts.                *)
(***************************************************************************)
InitDedup == Init /\ sites[2].status = PAUSED /\ ~ sites[1].ssl_enabled

NextDedup ==
    \/ AdvanceClock(TimeStep)
    \/ check_all_sites
    \/ \E w \in Workers : Run(w) \/ Notify(w)
    \/ Api(1)

SpecDedup == InitDedup /\ [][NextDedup]_vars

(***************************************************************************)
(* Alert lifecycle: the alerts raised by the first beat, two API users     *)
(* acting on them concurrently, the notification task and the sweeper,     *)
(* over retention-sized clock jumps.                                       *)
(***************************************************************************)
InitLifecycle == Init /\ sites[2].status = PAUSED /\ ~ sites[1].ssl_enabled

NextLifecycle ==
    \/ AdvanceClock(BigStep)
    \/ (last_run_at = NULL /\ check_all_sites)
    \/ Run("w1")
    \/ Notify("w1")
    \/ cleanup_old_data
    \/ \E u \in Users : Api(u)

SpecLifecycle == InitLifecycle /\ [][NextLifecycle]_vars

(***************************************************************************)
(* Immediate checks: the schedule of one worker, and one API user asking   *)
(* for checks of the sites.                                                *)
(***************************************************************************)
InitTrigger == Init /\ sites[1].ssl_enabled

NextTrigger ==
    \/ AdvanceClock(TimeStep)
    \/ check_all_sites
    \/ Run("w1")
    \/ Notify("w1")
    \/ SitesApi(1)
    \/ api_return(1)

SpecTrigger == InitTrigger /\ [][NextTrigger]_vars

(***************************************************************************)
(* The probes of one run: site 1 with every combination of its six enable  *)
(* flags and of the scheme of its url, checked once by worker w1 while     *)
(* worker w2 delivers the notifications.                                   *)
(***************************************************************************)
InitProbes ==
    /\ now = 0
    /\ last_run_at = NULL
    /\ \E https, up, ssl, perf, links, wp, seo \in BOOLEAN :
         sites = ( 1 :> SiteRow(ACTIVE, DEFAULT_CHECK_INTERVAL, https,
                                up, ssl, perf, links, wp, seo)
                @@ 2 :> SiteRow(PAUSED, 2 * DEFAULT_CHECK_INTERVAL, FALSE,
                                TRUE, TRUE, FALSE, FALSE, FALSE, FALSE) )
    /\ alerts = << >>
    /\ next_alert_id = 1
    /\ checks = {}
    /\ queue = << >>
    /\ workers = [ w \in Workers |-> IdleWorker ]
    /\ reqs = [ u \in Users |-> IdleReq ]
    /\ enqueued = 0
    /\ probe = NoProbe

NextProbes ==
    \/ (last_run_at = NULL /\ check_all_sites)
    \/ Run("w1")
    \/ Notify("w2")

SpecProbes == InitProbes /\ [][NextProbes]_vars

(***************************************************************************)
(* The worker pool: both sites ACTIVE with the same interval, beats one    *)
(* period apart, and the two workers of the pool taking the tasks.         *)
(***************************************************************************)
InitPool ==
    /\ now = 0
    /\ last_run_at = NULL
    /\ \E up \in BOOLEAN :
         sites = ( 1 :> SiteRow(ACTIVE, DEFAULT_CHECK_INTERVAL, TRUE,
                                TRUE, FALSE, FALSE, FALSE, FALSE, FALSE)
                @@ 2 :> SiteRow(ACTIVE, DEFAULT_CHECK_INTERVAL, FALSE,
                                up, FALSE, FALSE, FALSE, FALSE, FALSE) )
    /\ alerts = << >>
    /\ next_alert_id = 1
    /\ checks = {}
    /\ queue = << >>
    /\ workers = [ w \in Workers |-> IdleWorker ]
    /\ reqs = [ u \in Users |-> IdleReq ]
    /\ enqueued = 0
    /\ probe = NoProbe

NextPool ==
    \/ AdvanceClock(TimeStep)
    \/ check_all_sites
    \/ \E w \in Workers : Run(w) \/ Notify(w)

SpecPool == InitPool /\ [][NextPool]_vars

(***************************************************************************)
(* Retention: site 1 checked at the days of the calendar and the sweeper   *)
(* running at any of them.                                                 *)
(***************************************************************************)
InitRetention == Init /\ sites[2].status = PAUSED /\ sites[1].ssl_enabled

NextRetention ==
    \/ \E t \in Calendar : AdvanceClockTo(t)
    \/ check_all_sites
    \/ Run("w1")
    \/ Notify("w1")
    \/ cleanup_old_data

SpecRetention == InitRetention /\ [][NextRetention]_vars

(***************************************************************************)
(* Failing runs: site 1 dispatched at the days of the calendar to one      *)
(* worker whose run may raise at any point.                                *)
(***************************************************************************)
InitFailure == Init /\ sites[2].status = PAUSED /\ sites[1].ssl_enabled

NextFailure ==
    \/ \E t \in Calendar : AdvanceClockTo(t)
    \/ check_all_sites
    \/ Run("w1")
    \/ check_site_error("w1")
    \/ Notify("w1")

SpecFailure == InitFailure /\ [][NextFailure]_vars

(***************************************************************************)
(* Failing ticks: both sites due, a tick whose loop may raise at any due   *)
(* site, one worker.                                                       *)
(***************************************************************************)
InitTick == Init /\ sites[2].status = ACTIVE /\ sites[1].ssl_enabled

NextTick ==
    \/ AdvanceClock(TimeStep)
    \/ check_all_sites
    \/ \E n \in 0..Cardinality(SiteIds) : check_all_sites_error(n)
    \/ Run("w1")
    \/ Notify("w1")

SpecTick == InitTick /\ [][NextTick]_vars

(***************************************************************************)
(* Recurring conditions: site 1 checked at beats one period apart by one   *)
(* worker, and one API user resolving the alerts between the runs.         *)
(***************************************************************************)
InitFlap == Init /\ sites[2].status = PAUSED /\ ~ sites[1].ssl_enabled

NextFlap ==
    \/ AdvanceClock(TimeStep)
    \/ check_all_sites
    \/ Run("w1")
    \/ Notify("w1")
    \/ \E a \in AlertIds, authorized \in BOOLEAN, notes \in NotesIn :
          resolve_alert(1, a, authorized, notes)
    \/ resolve_alert_commit(1)
    \/ api_return(1)

SpecFlap == InitFlap /\ [][NextFlap]_vars

(***************************************************************************)
(* The probes as functions of what the network answers.  An outcome is the *)
(* answer to the probe's request: a response, or the exception raised in   *)
(* its place.  A result is the dict the probe returns, reduced to the      *)
(* fields check_site and the claims read.                                  *)
(***************************************************************************)
StatusCodes == {100, 199, 200, 204, 299, 300, 301, 399, 400, 404, 499, 500, 503, 599}

\* aiohttp.ClientError, asyncio.TimeoutError, any other Exception
NetworkErrors == {"client_error", "timeout", "exception"}

Failure(e) == [ type |-> e ]

UptimeOutcomes ==
    { [ type |-> "response", status |-> c ] : c \in StatusCodes }
      \cup { Failure(e) : e \in NetworkErrors }

\* check_uptime that takes only the 2xx codes for up
check_uptime_SuccessOnly(o) ==
    IF o.type = "response"
    THEN LET is_up == 200 <= o.status /\ o.status < 300
         IN  [ status_code |-> Some(o.status), is_up |-> is_up,
               error_message |-> IF is_up THEN NULL ELSE Some("HTTP status") ]
    ELSE [ status_code |-> NULL, is_up |-> FALSE,
           error_message |->
             Some(CASE o.type = "client_error" -> "Connection error"
                    [] o.type = "timeout" -> "Timeout after UPTIME_TIMEOUT seconds"
                    [] OTHER -> "Unexpected error") ]

check_uptime(o) ==
    IF o.type = "response"
    THEN LET is_up == 200 <= o.status /\ o.status < 400
         IN  [ status_code |-> Some(o.status), is_up |-> is_up,
               error_message |-> IF is_up THEN NULL ELSE Some("HTTP status") ]
    ELSE [ status_code |-> NULL, is_up |-> FALSE,
           error_message |->
             Some(CASE o.type = "client_error" -> "Connection error"
                    [] o.type = "timeout" -> "Timeout after UPTIME_TIMEOUT seconds"
                    [] OTHER -> "Unexpected error") ]

\* the handshake verifies the certificate, so a certificate is returned
\* only while it is within its validity period or not yet in it
SslOutcomes ==
    { [ type |-> "certificate", started |-> st, days |-> d ] :
        st \in BOOLEAN, d \in {0, 10, SSL_WARNING_DAYS, SSL_WARNING_DAYS + 1} }
      \cup { Failure(e) : e \in {"ssl_error", "dns", "timeout", "refused", "exception"} }

check_ssl_certificate(o) ==
    IF o.type = "certificate"
    THEN LET is_valid == o.started /\ o.days >= 0
         IN  [ is_valid |-> is_valid, days_until_expiry |-> Some(o.days),
               error_message |->
                 IF ~ is_valid THEN Some("Certificate not yet valid")
                 ELSE IF o.days <= SSL_WARNING_DAYS THEN Some("Certificate expires soon")
                 ELSE NULL ]
    ELSE [ is_valid |-> FALSE, days_until_expiry |-> NULL,
           error_message |->
             Some(CASE o.type = "ssl_error" -> "SSL error"
                    [] o.type = "dns" -> "DNS resolution failed"
                    [] o.type = "timeout" -> "Connection timeout"
                    [] o.type = "refused" -> "Connection refused"
                    [] OTHER -> "Unexpected error") ]

\* the page loads in load_time ms; an exception may come before the
\* navigation has ended or after load_time was stored
PerformanceOutcomes ==
    { [ type |-> t, load_time |-> l ] :
        t \in {"loaded", "loaded_then_exception"},
        l \in {PERFORMANCE_THRESHOLD, PERFORMANCE_THRESHOLD + 1} }
      \cup { Failure(e) : e \in {"timeout", "webdriver", "exception"} }

check_performance(o) ==
    CASE o.type = "loaded" ->
           [ load_time |-> Some(o.load_time), error_message |-> NULL ]
      [] o.type = "loaded_then_exception" ->
           [ load_time |-> Some(o.load_time), error_message |-> Some("Unexpected error") ]
      [] o.type = "timeout" ->
           [ load_time |-> NULL, error_message |-> Some("Page load timeout") ]
      [] o.type = "webdriver" ->
           [ load_time |-> NULL, error_message |-> Some("WebDriver error") ]
      [] OTHER ->
           [ load_time |-> NULL, error_message |-> Some("Unexpected error") ]

\* the page is fetched with or without a version in it and with a number
\* of security issues; _check_wp_rest_api returns {} or None
WordPressOutcomes ==
    { [ type |-> "response", version |-> v, issues |-> i ] :
        v \in {NULL, Some("6.4")}, i \in 0..2 }
      \cup { Failure(e) : e \in NetworkErrors }

\* a dict without an error_message key
check_wordpress(o) ==
    IF o.type = "response"
    THEN [ wp_version |-> o.version, wp_update_available |-> FALSE,
           plugins_need_update |-> 0, themes_need_update |-> 0,
           security_score |-> 100 - o.issues * 10 ]
    ELSE [ wp_version |-> NULL, wp_update_available |-> FALSE,
           plugins_need_update |-> 0, themes_need_update |-> 0,
           security_score |-> 100 ]

\* what check_seo finds on the page
TitleStates == {"missing", "empty", "short", "good", "long"}

SeoOutcomes ==
    { [ type |-> "response", title |-> t, meta_description |-> m,
        h1_count |-> h, low_word_count |-> w, images_without_alt |-> i,
        has_og_tags |-> og, has_twitter_tags |-> tw,
        has_schema_markup |-> sc, is_mobile_friendly |-> mo,
        has_robots_txt |-> ro, has_sitemap |-> sm ] :
        t \in TitleStates, m \in {"missing", "good"}, h \in 0..2,
        w \in BOOLEAN, i \in {0, 1}, og \in BOOLEAN, tw \in BOOLEAN,
        sc \in BOOLEAN, mo \in BOOLEAN, ro \in BOOLEAN, sm \in BOOLEAN }
      \cup { Failure(e) : e \in NetworkErrors }

B(c) == IF c THEN 1 ELSE 0

\* the issues the sub-checks append, counted by severity
SeoErrors(o) ==
    B(o.title \in {"missing", "empty"}) + B(o.meta_description \in {"missing", "empty"})
      + B(o.h1_count = 0)

SeoWarnings(o) ==
    B(o.title \in {"short", "long"}) + B(o.meta_description \in {"short", "long"})
      + B(o.h1_count > 1) + B(o.low_word_count) + B(o.images_without_alt > 0)
      + B(~ o.is_mobile_friendly) + B(~ o.has_sitemap)

SeoInfos(o) ==
    B(~ o.has_og_tags) + B(~ o.has_twitter_tags) + B(~ o.has_schema_markup)
      + B(~ o.has_robots_txt)

Clamp(lo, x, hi) == IF x < lo THEN lo ELSE IF x > hi THEN hi ELSE x

_calculate_seo_score(o) ==
    Clamp(0,
          100 - 10 * SeoErrors(o) - 5 * SeoWarnings(o) - 2 * SeoInfos(o)
            + 5 * B(o.has_og_tags) + 5 * B(o.has_twitter_tags)
            + 5 * B(o.has_schema_markup) + 10 * B(o.is_mobile_friendly)
            + 2 * B(o.has_robots_txt) + 5 * B(o.has_sitemap),
          100)

\* a dict without an error_message key; a failure is an entry of issues
check_seo(o) ==
    IF o.type = "response"
    THEN [ seo_score |-> _calculate_seo_score(o),
           issues |-> SeoErrors(o) + SeoWarnings(o) + SeoInfos(o),
           failed |-> FALSE ]
    ELSE [ seo_score |-> 0, issues |-> 1, failed |-> TRUE ]

\* the outcomes of a probe kind and the result the probe makes of one
Outcomes(kind) ==
    CASE kind = "uptime" -> UptimeOutcomes
      [] kind = "ssl" -> SslOutcomes
      [] kind = "performance" -> PerformanceOutcomes
      [] kind = "wordpress" -> WordPressOutcomes
      [] kind = "seo" -> SeoOutcomes

Result(kind, o) ==
    CASE kind = "uptime" -> check_uptime(o)
      [] kind = "ssl" -> check_ssl_certificate(o)
      [] kind = "performance" -> check_performance(o)
      [] kind = "wordpress" -> check_wordpress(o)
      [] kind = "seo" -> check_seo(o)

\* the probes with one request to wait for (check_broken_links is a
\* process of its own)
SimpleKinds == KindSet \ {"broken_links"}

\* loop.run_until_complete(probe(site.url)): the request is sent
probe_request(kind) ==
    /\ probe = NoProbe
    /\ probe' = [ call |-> kind, pc |-> "waiting" ]
    /\ UNCHANGED << now, last_run_at, sites, alerts, next_alert_id, checks,
                    queue, workers, reqs, enqueued >>

\* the network answers with outcome o and the probe returns its result
probe_result ==
    /\ probe.call \in SimpleKinds
    /\ probe.pc = "waiting"
    /\ \E o \in Outcomes(probe.call) :
         probe' = [ call |-> probe.call, pc |-> "returned", outcome |-> o,
                    result |-> Result(probe.call, o) ]
    /\ UNCHANGED << now, last_run_at, sites, alerts, next_alert_id, checks,
                    queue, workers, reqs, enqueued >>

\* the caller takes the result
probe_close ==
    /\ probe.call # "none"
    /\ probe.pc = "returned"
    /\ probe' = NoProbe
    /\ UNCHANGED << now, last_run_at, sites, alerts, next_alert_id, checks,
                    queue, workers, reqs, enqueued >>

(***************************************************************************)
(* The probes called one at a time, with every outcome of the network.     *)
(***************************************************************************)
NextProbeCalls ==
    \/ \E kind \in SimpleKinds : probe_request(kind)
    \/ probe_result
    \/ probe_close

SpecProbeCalls == Init /\ [][NextProbeCalls]_vars

(***************************************************************************)
(* check_broken_links.  A url is its netloc, its path as a sequence of     *)
(* characters and whether it has a fragment; the scheme is http.  An href  *)
(* is skipped (empty, "#...", javascript:, mailto:, tel:), relative to the *)
(* root of the page's site, or absolute.                                   *)
(***************************************************************************)
Url(netloc, path, fragment) ==
    [ netloc |-> netloc, path |-> path, fragment |-> fragment ]

Skipped == [ form |-> "skip" ]
Relative(path, fragment) ==
    [ form |-> "relative", path |-> path, fragment |-> fragment ]
Absolute(netloc, path, fragment) ==
    [ form |-> "absolute", netloc |-> netloc, path |-> path, fragment |-> fragment ]

\* the url of the page that is checked
BaseUrl == Url("site", << >>, FALSE)

urljoin(base_url, href) ==
    IF href.form = "relative"
    THEN Url(base_url.netloc, href.path, href.fragment)
    ELSE Url(href.netloc, href.path, href.fragment)

\* str.rstrip('/')
RECURSIVE RStrip(_)
RStrip(path) ==
    IF path # << >> /\ path[Len(path)] = "/"
    THEN RStrip(SubSeq(path, 1, Len(path) - 1))
    ELSE path

\* url.count('/'): the two of the scheme and those of the path
CountSlashes(url) ==
    2 + Cardinality({ i \in DOMAIN url.path : url.path[i] = "/" })

_normalize_url(url) ==
    LET cut == [ url EXCEPT !.fragment = FALSE ]
        endswith == cut.path # << >> /\ cut.path[Len(cut.path)] = "/"
    IN  IF endswith /\ CountSlashes(cut) > 2
        THEN [ cut EXCEPT !.path = RStrip(@) ]
        ELSE cut

_is_internal_link(base_url, link_url) ==
    link_url.netloc = "" \/ base_url.netloc = link_url.netloc

\* the links of the anchors of a page, in document order
_extract_links(html, base_url) ==
    LET anchors == SelectSeq(html, LAMBDA href : href.form # "skip")
    IN  [ i \in DOMAIN anchors |-> _normalize_url(urljoin(base_url, anchors[i])) ]

\* every link of the page kept, repeated or not
RECURSIVE Unique_KeepAll(_)
Unique_KeepAll(links) ==
    IF links = << >> THEN << >>
    ELSE Unique_KeepAll(SubSeq(links, 1, Len(links) - 1))
           \o << links[Len(links)] >>

\* list(dict.fromkeys(all_links)): the first occurrence of each link
RECURSIVE Unique(_)
Unique(links) ==
    IF links = << >> THEN << >>
    ELSE LET front == Unique(SubSeq(links, 1, Len(links) - 1))
             last == links[Len(links)]
         IN  IF \E i \in DOMAIN front : front[i] = last THEN front
             ELSE Append(front, last)

\* the answers to the HEAD request of _check_link and to the GET request
\* that follows a HEAD that raised aiohttp.ClientError
LinkStatusCodes == {200, 301, 399, 400, 404, 500}

LinkOutcomes ==
    { [ head |-> "response", status |-> c ] : c \in LinkStatusCodes }
      \cup { [ head |-> h ] : h \in {"timeout", "exception"} }
      \cup { [ head |-> "client_error", get |-> "response", status |-> c ] :
               c \in LinkStatusCodes }
      \cup { [ head |-> "client_error", get |-> g ] : g \in NetworkErrors }

\* _check_link: is_broken of its result
_check_link(o) ==
    IF o.head = "response" THEN o.status >= 400
    ELSE IF o.head = "client_error" /\ o.get = "response" THEN o.status >= 400
    ELSE TRUE

\* the hrefs and the pages given to the probe
Paths == { << >>, << "/" >>, << "/", "a" >>, << "/", "a", "/" >> }

HrefsIn ==
    { Skipped, Relative(<< "/", "a" >>, TRUE), Relative(<< "/", "b" >>, FALSE) }
      \cup { Absolute(n, p, FALSE) : n \in {"site", "ext"}, p \in Paths }

MaxAnchors == 3

\* 3 internal and 2 external links, one of them on the page three times
ExamplePage ==
    << Relative(<< "/", "a" >>, FALSE), Absolute("ext", << "/", "a" >>, FALSE),
       Relative(<< "/", "b" >>, FALSE), Absolute("ext", << "/", "a", "/" >>, FALSE),
       Absolute("site", << "/" >>, FALSE), Absolute("ext", << >>, FALSE),
       Absolute("ext", << "/", "a" >>, TRUE) >>

Pages ==
    UNION { [ 1..n -> HrefsIn ] : n \in 0..MaxAnchors } \cup { ExamplePage }

BROKEN_LINK_MAX_THREADS == 10

\* settings.BROKEN_LINK_MAX_THREADS as the environment may set it
MaxConcurrentIn == {1, 2, BROKEN_LINK_MAX_THREADS}

\* the link checks that hold the semaphore
InFlight ==
    { i \in DOMAIN probe.status : probe.status[i] = "in_flight" }

\* check_broken_links is called: the page is requested
check_broken_links(max_concurrent) ==
    /\ probe = NoProbe
    /\ probe' = [ call |-> "broken_links", pc |-> "fetching",
                  max_concurrent |-> max_concurrent ]
    /\ UNCHANGED << now, last_run_at, sites, alerts, next_alert_id, checks,
                    queue, workers, reqs, enqueued >>

BrokenLinksResult(total, internal, external, details, error_message) ==
    [ total_links |-> total, internal_links |-> internal,
      external_links |-> external, broken_links |-> Len(details),
      broken_link_details |-> details, error_message |-> error_message ]

\* _fetch_page_html returns None: the call ends with an error_message
check_broken_links_no_page ==
    /\ probe.call = "broken_links"
    /\ probe.pc = "fetching"
    /\ probe' = [ call |-> "broken_links", pc |-> "returned",
                  result |-> BrokenLinksResult(0, 0, 0, << >>,
                                               Some("Failed to fetch page")) ]
    /\ UNCHANGED << now, last_run_at, sites, alerts, next_alert_id, checks,
                    queue, workers, reqs, enqueued >>

\* _fetch_page_html returns the page
check_broken_links_page ==
    /\ probe.call = "broken_links"
    /\ probe.pc = "fetching"
    /\ \E html \in Pages :
         probe' = [ call |-> "broken_links", pc |-> "extracting",
                    max_concurrent |-> probe.max_concurrent, html |-> html ]
    /\ UNCHANGED << now, last_run_at, sites, alerts, next_alert_id, checks,
                    queue, workers, reqs, enqueued >>

\* the links of the page are extracted, deduplicated and counted, and one
\* task per link and the semaphore are created
check_broken_links_extract ==
    /\ probe.call = "broken_links"
    /\ probe.pc = "extracting"
    /\ LET unique_links == Unique(_extract_links(probe.html, BaseUrl))
           internal == SelectSeq(unique_links,
                                 LAMBDA l : _is_internal_link(BaseUrl, l))
           external == SelectSeq(unique_links,
                                 LAMBDA l : ~ _is_internal_link(BaseUrl, l))
       IN  probe' = [ call |-> "broken_links", pc |-> "checking",
                      max_concurrent |-> probe.max_concurrent,
                      semaphore |-> probe.max_concurrent,
                      links |-> unique_links,
                      total_links |-> Len(unique_links),
                      internal_links |-> Len(internal),
                      external_links |-> Len(external),
                      started |-> 0,
                      status |-> [ i \in DOMAIN unique_links |-> "pending" ] ]
    /\ UNCHANGED << now, last_run_at, sites, alerts, next_alert_id, checks,
                    queue, workers, reqs, enqueued >>

\* a task that enters _check_link without the semaphore
check_with_semaphore_Unbounded ==
    /\ probe.call = "broken_links"
    /\ probe.pc = "checking"
    /\ probe.started < Len(probe.links)
    /\ probe' = [ probe EXCEPT !.started = @ + 1,
                               !.status[probe.started + 1] = "in_flight" ]
    /\ UNCHANGED << now, last_run_at, sites, alerts, next_alert_id, checks,
                    queue, workers, reqs, enqueued >>

\* check_with_semaphore: the next task acquires the semaphore and enters
\* _check_link
check_with_semaphore ==
    /\ probe.call = "broken_links"
    /\ probe.pc = "checking"
    /\ probe.started < Len(probe.links)
    /\ probe.semaphore > 0
    /\ probe' = [ probe EXCEPT !.semaphore = @ - 1,
                               !.started = @ + 1,
                               !.status[probe.started + 1] = "in_flight" ]
    /\ UNCHANGED << now, last_run_at, sites, alerts, next_alert_id, checks,
                    queue, workers, reqs, enqueued >>

\* _check_link of a link returns and the task releases the semaphore
check_link_returns ==
    /\ probe.call = "broken_links"
    /\ probe.pc = "checking"
    /\ \E i \in InFlight, o \in LinkOutcomes :
         probe' = [ probe EXCEPT !.semaphore = @ + 1,
                                 !.status[i] = IF _check_link(o) THEN "broken"
                                               ELSE "ok" ]
    /\ UNCHANGED << now, last_run_at, sites, alerts, next_alert_id, checks,
                    queue, workers, reqs, enqueued >>

\* asyncio.gather returns: the broken links are collected and counted
check_broken_links_return ==
    /\ probe.call = "broken_links"
    /\ probe.pc = "checking"
    /\ \A i \in DOMAIN probe.status : probe.status[i] \in {"ok", "broken"}
    /\ LET broken == { i \in DOMAIN probe.links : probe.status[i] = "broken" }
           picked == SelectSeq([ i \in DOMAIN probe.links |-> i ],
                               LAMBDA i : i \in broken)
           details == [ j \in DOMAIN picked |-> probe.links[picked[j]] ]
       IN  probe' = [ call |-> "broken_links", pc |-> "returned",
                      max_concurrent |-> probe.max_concurrent,
                      links |-> probe.links, status |-> probe.status,
                      result |-> BrokenLinksResult(probe.total_links,
                                                   probe.internal_links,
                                                   probe.external_links,
                                                   details, NULL) ]
    /\ UNCHANGED << now, last_run_at, sites, alerts, next_alert_id, checks,
                    queue, workers, reqs, enqueued >>

(***************************************************************************)
(* check_broken_links called on the pages, with the link checks it starts  *)
(* answered in any order.                                                  *)
(***************************************************************************)
InitLinks == Init /\ sites[2].status = PAUSED /\ sites[1].ssl_enabled

NextLinks ==
    \/ \E max_concurrent \in MaxConcurrentIn : check_broken_links(max_concurrent)
    \/ check_broken_links_no_page
    \/ check_broken_links_page
    \/ check_broken_links_extract
    \/ check_with_semaphore
    \/ check_link_returns
    \/ check_broken_links_return
    \/ probe_close

SpecLinks == InitLinks /\ [][NextLinks]_vars

(***************************************************************************)
(* Properties of alert deduplication.                                      *)
(***************************************************************************)
\* the alerts of a pair that are OPEN or ACKNOWLEDGED
ActiveAlerts(site_id, alert_type) ==
    { a \in DOMAIN alerts :
        /\ alerts[a].site_id = site_id
        /\ alerts[a].alert_type = alert_type
        /\ alerts[a].status \in {OPEN, ACKNOWLEDGED} }

\* C1: in every reachable state, each (site_id, alert_type) pair has at most
\* one alert whose status is OPEN or ACKNOWLEDGED.
C1_OneActiveAlertPerPair ==
    \A s \in SiteIds, kd \in KindSet : Cardinality(ActiveAlerts(s, kd)) <= 1

\* C2: create_alert checks and creates atomically: check_site runs racing on
\* two workers for a pair with no alert never leave two freshly created
\* (OPEN) alerts of that pair.
C2_RaceCreatesAtMostOne ==
    \A s \in SiteIds, kd \in KindSet :
        Cardinality({ a \in DOMAIN alerts :
                        /\ alerts[a].site_id = s
                        /\ alerts[a].alert_type = kd
                        /\ alerts[a].status = OPEN }) <= 1

\* C3: a create_alert call made while the pair has an OPEN or ACKNOWLEDGED
\* alert is a no-op: its query ends the call, it never goes on to insert a
\* row and enqueue a notification.
C3_Step ==
    \A w \in Workers :
        ( /\ workers[w].task = "check_site"
          /\ workers[w].pc = "create_alert"
          /\ ActiveAlerts(workers[w].arg, Kinds[workers[w].k]) # {}
          /\ workers'[w] # workers[w] )
        => /\ workers'[w].pc # "insert"
           /\ alerts' = alerts
           /\ enqueued' = enqueued

C3_ActiveAlertSuppressesCreate == [][C3_Step]_vars

\* C4: a create_alert call for a pair with no OPEN or ACKNOWLEDGED alert
\* goes on to create; a creation adds exactly one row, with status OPEN, and
\* enqueues exactly one send_alert_notifications task for it; and every step
\* enqueues as many notification tasks as it creates alerts.
C4_Step ==
    /\ enqueued' - enqueued = Cardinality(DOMAIN alerts' \ DOMAIN alerts)
    /\ \A w \in Workers :
         ( /\ workers[w].pc = "create_alert"
           /\ ActiveAlerts(workers[w].arg, Kinds[workers[w].k]) = {}
           /\ workers'[w].pc \notin {"create_alert", "error"} )
         => workers'[w].pc = "insert"
    /\ \A w \in Workers :
         ( /\ workers[w].pc = "insert"
           /\ workers'[w].pc \notin {"insert", "error"} )
         => \E a \in AlertIds \ DOMAIN alerts :
              /\ DOMAIN alerts' = DOMAIN alerts \cup {a}
              /\ \A b \in DOMAIN alerts : alerts'[b] = alerts[b]
              /\ alerts'[a].status = OPEN
              /\ alerts'[a].site_id = workers[w].arg
              /\ alerts'[a].alert_type = Kinds[workers[w].k]
              /\ queue' = Append(queue, NotifyTask(a))

C4_CreateOneAlertOneSignal == [][C4_Step]_vars

\* an alert was created after another one: both signals were enqueued, the
\* second is still in the queue
C4_Witness ==
    /\ enqueued = 2
    /\ \E a \in DOMAIN alerts :
         /\ alerts[a].status = OPEN
         /\ \E i \in 1..Len(queue) : queue[i] = NotifyTask(a)
         /\ a = 2

(***************************************************************************)
(* Properties of the alert lifecycle.                                      *)
(***************************************************************************)
\* C5: the status of an alert changes only OPEN -> ACKNOWLEDGED,
\* OPEN -> RESOLVED or ACKNOWLEDGED -> RESOLVED; a RESOLVED alert keeps its
\* status until it is deleted.
C5_Step ==
    \A a \in DOMAIN alerts \cap DOMAIN alerts' :
        alerts'[a].status # alerts[a].status
        => << alerts[a].status, alerts'[a].status >> \in
             { << OPEN, ACKNOWLEDGED >>, << OPEN, RESOLVED >>,
               << ACKNOWLEDGED, RESOLVED >> }

C5_StatusOnlyMovesForward == [][C5_Step]_vars

\* C6: acknowledge_alert on an alert it finds in a status other than OPEN
\* does not succeed and does not modify the alert.
C6_Step ==
    \A u \in Users :
        ( /\ reqs[u].op = "acknowledge"
          /\ reqs[u].pc = "write"
          /\ reqs[u].loaded.status # OPEN
          /\ reqs'[u].pc = "done" )
        => /\ reqs'[u].code # 200
           /\ alerts' = alerts

C6_AcknowledgeOnlyFromOpen == [][C6_Step]_vars

\* C7: acknowledge_alert and resolve_alert on a RESOLVED alert are rejected
\* with an error (400) and leave every field of every alert unchanged.
C7_Step ==
    \A u \in Users, a \in DOMAIN alerts :
        alerts[a].status = RESOLVED
        => /\ acknowledge_alert(u, a, TRUE)
                => (reqs'[u].pc = "done" /\ reqs'[u].code = 400 /\ alerts' = alerts)
           /\ \A notes \in NotesIn :
                resolve_alert(u, a, TRUE, notes)
                => (reqs'[u].pc = "done" /\ reqs'[u].code = 400 /\ alerts' = alerts)

C7_ResolvedIsTerminal == [][C7_Step]_vars

\* an acknowledge and a resolve were both rejected, the alert is RESOLVED
C7_Witness ==
    /\ \E u \in Users :
         reqs[u].op = "acknowledge" /\ reqs[u].pc = "done" /\ reqs[u].code = 400
    /\ \E u \in Users :
         reqs[u].op = "resolve" /\ reqs[u].pc = "done" /\ reqs[u].code = 400
    /\ \E a \in DOMAIN alerts : alerts[a].status = RESOLVED

\* C8: resolve_alert by an authorized user on an OPEN or ACKNOWLEDGED alert
\* passes the status check, and when it commits on an alert that is (still)
\* OPEN or ACKNOWLEDGED the response is 200 and the alert is RESOLVED with
\* resolved_by the user and resolved_at the time of the commit.
C8_Step ==
    /\ \A u \in Users, a \in DOMAIN alerts, notes \in NotesIn :
         ( /\ alerts[a].status \in {OPEN, ACKNOWLEDGED}
           /\ resolve_alert(u, a, TRUE, notes) )
         => (reqs'[u].pc = "write" /\ reqs'[u].alert_id = a)
    /\ \A u \in Users :
         ( /\ reqs[u].op = "resolve"
           /\ reqs[u].pc = "write"
           /\ reqs'[u].pc = "done"
           /\ reqs[u].alert_id \in DOMAIN alerts
           /\ alerts[reqs[u].alert_id].status \in {OPEN, ACKNOWLEDGED} )
         => /\ reqs'[u].code = 200
            /\ alerts'[reqs[u].alert_id].status = RESOLVED
            /\ alerts'[reqs[u].alert_id].resolved_by = Some(u)
            /\ alerts'[reqs[u].alert_id].resolved_at = Some(now)

C8_ResolveRecords == [][C8_Step]_vars

\* a resolve of an acknowledged alert has just been answered with 200
C8_Witness ==
    \E u \in Users, a \in DOMAIN alerts :
        /\ reqs[u].op = "resolve" /\ reqs[u].pc = "done" /\ reqs[u].code = 200
        /\ alerts[a].status = RESOLVED
        /\ alerts[a].acknowledged_at # NULL
        /\ alerts[a].resolved_by = Some(u)
        /\ alerts[a].resolved_at = Some(now)

(***************************************************************************)
(* Properties of the scheduler and of check_site.                          *)
(***************************************************************************)
\* C9: a run of check_all_sites sends exactly one check_site task for each
\* site that is ACTIVE and due (never checked, or checked at least
\* check_interval seconds ago), and none for any other site.
C9_Step ==
    last_run_at' # last_run_at
    => \A s \in SiteIds :
         LET sent(q) == Cardinality({ i \in 1..Len(q) : q[i] = CheckSiteTask(s) })
             due == \/ sites[s].last_checked_at = NULL
                    \/ now - sites[s].last_checked_at[1] >= sites[s].check_interval
         IN  sent(queue') - sent(queue) =
               IF sites[s].status = ACTIVE /\ due THEN 1 ELSE 0

C9_DispatchActiveAndDue == [][C9_Step]_vars

\* the second beat found site 1 exactly due and site 2, checked as well,
\* not yet due
C9_Witness ==
    /\ now = BEAT_SCHEDULE
    /\ last_run_at = Some(now)
    /\ sites[1].last_checked_at = Some(0)
    /\ sites[2].status = ACTIVE
    /\ sites[2].last_checked_at = Some(0)
    /\ queue = << CheckSiteTask(1) >>

\* C10: when a check_site run of an existing site reaches its end, the
\* site's last_checked_at is set to the time of completion, whether or not
\* a probe reported an error.
C10_Step ==
    \A w \in Workers :
        ( /\ workers[w].task = "check_site"
          /\ workers[w].pc # "done"
          /\ workers'[w].pc = "done" )
        => sites'[workers[w].arg].last_checked_at = Some(now')

C10_LastCheckedAtOnCompletion == [][C10_Step]_vars

\* a run whose probe reported an error has completed at a later beat
C10_Witness ==
    \E w \in Workers :
        /\ workers[w].pc = "done"
        /\ workers[w].errs
        /\ now > 0
        /\ sites[workers[w].arg].last_checked_at = Some(now)

(***************************************************************************)
(* Properties of the probes of a check_site run.                           *)
(***************************************************************************)
\* the probe of one kind returns a result to the run on worker w
ProbeReturns(w, kind) ==
    /\ workers[w].task = "check_site"
    /\ workers[w].pc = "probe"
    /\ Kinds[workers[w].k] = kind
    /\ \E r \in ProbeResults(kind) : check_site_probe(w, r)

\* the probe kinds of the run on worker w whose block is still to be entered
PendingKinds(w) ==
    { Kinds[j] : j \in { i \in workers[w].k..Len(Kinds) :
                           Runs(sites[workers[w].arg], Kinds[i]) } }

\* C11: the probes of a run execute concurrently and independently: while a
\* run waits for its probes, every enabled probe whose result is still
\* outstanding can return and have its result persisted, without waiting
\* for another probe.
C11_ProbesRunConcurrently ==
    \A w \in Workers :
        (workers[w].task = "check_site" /\ workers[w].pc = "probe")
        => \A kind \in PendingKinds(w) : ENABLED ProbeReturns(w, kind)

\* C12: whatever the six enable flags of a site, a check_site run persists
\* results only for probe kinds whose flag is enabled.
C12_ResultsOnlyForEnabledProbes ==
    \A c \in checks : EnabledFlag(sites[c.site_id], c.kind)

\* a run over a site with some probes disabled has completed and saved a
\* result for each of its enabled probes
C12_Witness ==
    \E w \in Workers :
        /\ workers[w].task = "check_site" /\ workers[w].pc = "done"
        /\ LET site == sites[workers[w].arg]
           IN  /\ ~ site.uptime_enabled /\ ~ site.seo_enabled
               /\ site.https /\ site.ssl_enabled /\ site.wordpress_checks_enabled
               /\ { c.kind : c \in { x \in checks : x.site_id = workers[w].arg } }
                    = { kd \in KindSet : EnabledFlag(site, kd) }

(***************************************************************************)
(* Properties of the worker pool.                                          *)
(***************************************************************************)
\* the check_site runs in progress
Running == { w \in Workers : workers[w].task = "check_site" }

\* C13: the check_site runs in progress never exceed the size of the worker
\* pool; a beat dispatches its due sites also while every worker is busy;
\* a dispatched task stays in the queue until a worker takes it, and it can
\* be taken as soon as it heads the queue and a worker is free, without
\* waiting for a beat.
C13_Cap ==
    /\ Cardinality(Running) <= Cardinality(Workers)
    /\ ( /\ queue # << >>
         /\ Head(queue).name = "check_site"
         /\ \E w \in Workers : workers[w].task = "idle" )
       => \E w \in Workers : ENABLED check_site_start(w)

C13_Step ==
    /\ last_run_at' # last_run_at
       => \A s \in DOMAIN sites :
            ( /\ sites[s].status = ACTIVE
              /\ \/ sites[s].last_checked_at = NULL
                 \/ now - sites[s].last_checked_at[1] >= sites[s].check_interval )
            => \E i \in (Len(queue) + 1)..Len(queue') : queue'[i] = CheckSiteTask(s)
    /\ \A i \in 1..Len(queue) :
         queue[i].name = "check_site"
         => \/ (i <= Len(queue') /\ queue'[i] = queue[i])
            \/ (i > 1 /\ queue'[i - 1] = queue[i])
            \/ /\ i = 1
               /\ \E w \in Workers :
                    /\ workers[w].task = "idle"
                    /\ workers'[w].task = "check_site"
                    /\ workers'[w].arg = queue[1].arg
                    /\ now' = now

C14_Step ==
    \A w \in Workers, r \in ProbeResults("ssl") :
        ( /\ workers[w].task = "check_site"
          /\ workers[w].pc = "probe"
          /\ Kinds[workers[w].k] = "ssl"
          /\ check_site_probe(w, r)
          /\ \/ ~ r.is_valid
             \/ /\ r.days_until_expiry # NULL
                /\ r.days_until_expiry[1] < SSL_WARNING_DAYS )
        => /\ workers'[w].pc = "create_alert"
           /\ Kinds[workers'[w].k] = "ssl"
           /\ Severity("ssl") = WARNING

C14_SslAlertWhenInvalidOrExpiring == [][C14_Step]_vars

\* C15: a check result leads to at most one create_alert call, made exactly
\* when the threshold of its probe kind is crossed (uptime: not up;
\* performance: load_time > threshold; broken_links > 0; wordpress: core
\* update or plugin + theme updates > 0; seo: score < 50), and the alert it
\* creates has the type of the probe kind and the severity fixed for it
\* (uptime CRITICAL, wordpress INFO, the others WARNING).
C15_Step ==
    /\ \A w \in Workers, kind \in KindSet \ {"ssl"} :
         \A r \in ProbeResults(kind) :
           ( /\ workers[w].task = "check_site"
             /\ workers[w].pc = "probe"
             /\ Kinds[workers[w].k] = kind
             /\ check_site_probe(w, r) )
           => ( (workers'[w].pc = "create_alert" /\ workers'[w].k = workers[w].k)
                <=> CASE kind = "uptime" -> r.is_up = FALSE
                      [] kind = "performance" ->
                           /\ r.load_time # NULL
                           /\ r.load_time[1] > PERFORMANCE_THRESHOLD
                      [] kind = "broken_links" -> r.broken_links > 0
                      [] kind = "wordpress" ->
                           \/ r.wp_update_available
                           \/ r.plugins_need_update + r.themes_need_update > 0
                      [] kind = "seo" -> r.seo_score < 50 )
    /\ \A w \in Workers :
         ( /\ workers[w].task = "check_site"
           /\ workers[w].pc \in {"create_alert", "insert"}
           /\ workers'[w] # workers[w] )
         => \/ workers'[w].k > workers[w].k
            \/ workers'[w].pc = "error"
            \/ /\ workers[w].pc = "create_alert"
               /\ workers'[w].pc = "insert"
               /\ workers'[w].k = workers[w].k
    /\ \A a \in DOMAIN alerts' \ DOMAIN alerts :
         \E w \in Workers :
            /\ workers[w].pc = "insert"
            /\ alerts'[a].site_id = workers[w].arg
            /\ alerts'[a].alert_type = Kinds[workers[w].k]
            /\ alerts'[a].severity =
                 CASE alerts'[a].alert_type = "uptime" -> CRITICAL
                   [] alerts'[a].alert_type = "wordpress" -> INFO
                   [] OTHER -> WARNING

C16_Step ==
    cleanup_old_data
    => /\ checks' \subseteq checks
       /\ \A c \in checks :
            c \in checks' <=> now - c.checked_at <= 90 * DaySeconds

C16_SweepsResultsPastHorizon == [][C16_Step]_vars

\* the results of day 0 (uptime and ssl) are gone on day 91 while those of
\* day 2, aged 89 days, are still there
C16_Witness ==
    /\ now = 91 * DaySeconds
    /\ { c.checked_at : c \in checks } = { 2 * DaySeconds }
    /\ { c.kind : c \in checks } = { "uptime", "ssl" }
    /\ \E a \in DOMAIN alerts : alerts[a].ntfy_sent_at = Some(0)

\* C17: cleanup_old_data deletes an alert only if its status is RESOLVED and
\* its resolved_at is more than 30 days old; an OPEN or ACKNOWLEDGED alert
\* is never deleted by it, however old, and the alerts it keeps are
\* unchanged.
C17_Step ==
    cleanup_old_data
    => \A a \in DOMAIN alerts :
         /\ a \notin DOMAIN alerts'
              <=> /\ alerts[a].status = RESOLVED
                  /\ alerts[a].resolved_at # NULL
                  /\ now - alerts[a].resolved_at[1] > 30 * DaySeconds
         /\ alerts[a].status \in {OPEN, ACKNOWLEDGED} => a \in DOMAIN alerts'
         /\ a \in DOMAIN alerts' => alerts'[a] = alerts[a]

C17_SweepsOnlyOldResolvedAlerts == [][C17_Step]_vars

\* the one alert, acknowledged by user 2 and resolved by user 1 whose
\* responses are still on their way, has been swept a month later
C17_Witness ==
    /\ now = BigStep
    /\ next_alert_id = 2
    /\ DOMAIN alerts = {}
    /\ reqs[1].op = "resolve" /\ reqs[1].pc = "done" /\ reqs[1].code = 200
    /\ reqs[2].op = "acknowledge" /\ reqs[2].pc = "done" /\ reqs[2].code = 200

\* C18: send_alert_notifications attempts every configured channel, push
\* and email, and records the outcome of each on the alert: a run in which
\* the deliveries succeed leaves ntfy_sent/ntfy_sent_at and
\* email_sent/email_sent_at recorded.
C18_Step ==
    \A w \in Workers :
      ( /\ send_alert_notifications_send(w, TRUE)
        /\ workers[w].arg \in DOMAIN alerts )
      => LET alert == alerts'[workers[w].arg]
         IN  /\ alert.ntfy_sent /\ alert.ntfy_sent_at = Some(now)
             /\ alert.email_sent /\ alert.email_sent_at = Some(now)

C18_EveryChannelRecorded == [][C18_Step]_vars

\* the send attempts for an alert that are still to come: its notification
\* tasks in the queue and the ones a worker is running
Pending(a) ==
    Cardinality({ i \in DOMAIN queue : queue[i] = NotifyTask(a) })
      + Cardinality({ w \in Workers : /\ workers[w].task = "send_alert_notifications"
                                      /\ workers[w].arg = a })

\* C19: at most one send attempt per channel is made for an alert: a
\* notification task is enqueued only for an alert created by the same
\* step, there is never more than one of them per alert, and the attempt
\* leaves none behind; a failed attempt leaves ntfy_sent false and
\* ntfy_sent_at empty; ntfy_sent becomes true only in an attempt that
\* reported success; the email columns never change.
C19_Inv ==
    /\ \A a \in AlertIds : Pending(a) <= 1
    /\ \A a \in DOMAIN alerts :
         /\ alerts[a].ntfy_sent <=> alerts[a].ntfy_sent_at # NULL
         /\ alerts[a].email_sent <=> alerts[a].email_sent_at # NULL

C19_Step ==
    /\ \A a \in AlertIds :
         Pending(a)' > Pending(a)
         => a = next_alert_id /\ a \notin DOMAIN alerts /\ a \in DOMAIN alerts'
    /\ \A w \in Workers : \A success \in BOOLEAN : \A a \in AlertIds :
         send_alert_notifications_send(w, success) /\ workers[w].arg = a
         => /\ Pending(a)' = 0
            /\ ~ success /\ a \in DOMAIN alerts
               => /\ ~ alerts'[a].ntfy_sent
                  /\ alerts'[a].ntfy_sent_at = NULL
    /\ \A a \in DOMAIN alerts \cap DOMAIN alerts' :
         /\ alerts'[a].ntfy_sent # alerts[a].ntfy_sent
            \/ alerts'[a].ntfy_sent_at # alerts[a].ntfy_sent_at
            => \E w \in Workers :
                 /\ send_alert_notifications_send(w, TRUE)
                 /\ workers[w].arg = a
                 /\ alerts'[a].ntfy_sent
         /\ alerts'[a].email_sent = alerts[a].email_sent
         /\ alerts'[a].email_sent_at = alerts[a].email_sent_at

C19_AtMostOneAttempt == [] C19_Inv /\ [][C19_Step]_vars

\* one alert's attempt failed and is over, nothing is recorded and no task
\* for it is left; another alert's attempt succeeded
C19_Witness ==
    \E a, b \in DOMAIN alerts :
      /\ ~ alerts[a].ntfy_sent /\ alerts[a].ntfy_sent_at = NULL
      /\ Pending(a) = 0
      /\ alerts[b].ntfy_sent

\* C20: the trigger for an immediate check of an existing site enqueues a
\* check_site run for that site, which then runs as a scheduled one does.
C20_Step ==
    \A u \in Users : \A site_id \in SiteIds :
      trigger_check(u, site_id, TRUE)
      => queue' = Append(queue, CheckSiteTask(site_id))

C20_TriggerEnqueuesCheck == [][C20_Step]_vars

(***************************************************************************)
(* Properties of failing runs.                                             *)
(***************************************************************************)
\* the sites whose run has just caught an error
ErroredSites ==
    { workers[w].arg : w \in { v \in Workers : /\ workers[v].task = "check_site"
                                               /\ workers[v].pc = "error" } }

\* the sites a run of check_all_sites dispatches
DispatchedSites == { Dispatched[i].arg : i \in DOMAIN Dispatched }

\* C21 as stated: after a check_site run caught an error, the next
\* scheduler tick selects the site as due and dispatches it again.
C21_Step_AsStated ==
    check_all_sites
    => \A s \in ErroredSites :
         sites[s].status = ACTIVE => s \in DispatchedSites

C21_Step ==
    /\ \A w \in Workers :
         check_site_error(w)
         => /\ workers'[w].pc = "error"
            /\ sites' = sites
    /\ \A w \in Workers :
         check_site_close(w) /\ workers[w].pc = "error"
         => /\ workers'[w] = IdleWorker
            /\ sites' = sites
    /\ \A s \in SiteIds :
         ( /\ should_check_site(sites[s])
           /\ ~ \E w \in Workers : check_site_finish(w) /\ workers[w].arg = s )
         => should_check_site(sites[s])'
    /\ check_all_sites
       => \A s \in ErroredSites :
            sites[s].status = ACTIVE /\ should_check_site(sites[s])
            => /\ s \in DispatchedSites
               /\ \E i \in (Len(queue) + 1)..Len(queue') :
                    queue'[i] = CheckSiteTask(s)

Answered(o) == o.type \in {"response", "certificate", "loaded"}

\* C22: every probe returns a result for every outcome; when the request
\* failed, the result carries a non-empty error_message and the unhealthy
\* value of its kind (is_up false, is_valid false), never a healthy default.
C22_ProbeFailureIsReported ==
    ( /\ probe.call \in SimpleKinds
      /\ probe.pc = "returned"
      /\ ~ Answered(probe.outcome) )
    => /\ "error_message" \in DOMAIN probe.result
       /\ probe.result.error_message # NULL
       /\ probe.call = "uptime" => ~ probe.result.is_up
       /\ probe.call = "ssl" => ~ probe.result.is_valid
       /\ probe.call = "wordpress" => probe.result.security_score < 100
       /\ probe.call = "seo" => probe.result.seo_score < SEO_SCORE_THRESHOLD

\* C23: the uptime probe reports is_up exactly when a response came with a
\* final status code in 200..399; for every other status code and for
\* every connection error or timeout it reports is_up false with
\* error_message set, and a timeout ends in a result that names it.
C23_UpIffStatus2xx3xx ==
    ( /\ probe.call = "uptime"
      /\ probe.pc = "returned" )
    => LET o == probe.outcome
           r == probe.result
       IN  /\ r.is_up <=> ( /\ o.type = "response"
                            /\ o.status \in 200..399 )
           /\ ~ r.is_up => r.error_message # NULL
           /\ o.type = "response" => r.status_code = Some(o.status)
           /\ o.type = "timeout"
                => r.error_message = Some("Timeout after UPTIME_TIMEOUT seconds")

\* the request timed out and the probe returned a result that says so
C23_Witness ==
    /\ probe.call = "uptime"
    /\ probe.pc = "returned"
    /\ probe.outcome = Failure("timeout")
    /\ ~ probe.result.is_up
    /\ probe.result.error_message = Some("Timeout after UPTIME_TIMEOUT seconds")

(***************************************************************************)
(* Properties of check_broken_links.                                       *)
(***************************************************************************)
\* the distinct links of a page: its anchors that are not skipped, made
\* absolute and normalised
DistinctLinks(html) ==
    { _normalize_url(urljoin(BaseUrl, html[i])) :
        i \in { j \in DOMAIN html : html[j].form # "skip" } }

\* C24: check_broken_links counts the links after normalisation and
\* deduplication: total_links is the number of distinct links, each of
\* them is in the list once, total_links = internal_links +
\* external_links, and broken_links is the length of broken_link_details
\* and at most total_links; the page with 3 internal and 2 external links,
\* one of them three times, gives 5, 3 and 2.
C24_Step ==
      check_broken_links_extract
      => LET distinct == DistinctLinks(probe.html)
         IN  /\ probe'.total_links = Cardinality(distinct)
             /\ \A l \in distinct :
                  Cardinality({ i \in DOMAIN probe'.links : probe'.links[i] = l }) = 1
             /\ probe'.internal_links
                  = Cardinality({ l \in distinct : l.netloc = BaseUrl.netloc })
             /\ probe'.external_links
                  = Cardinality({ l \in distinct : l.netloc # BaseUrl.netloc })
             /\ probe.html = ExamplePage
                  => /\ probe'.total_links = 5
                     /\ probe'.internal_links = 3
                     /\ probe'.external_links = 2

C24_Counts ==
    ( probe.call = "broken_links" /\ probe.pc = "returned" )
    => LET r == probe.result
       IN  /\ r.total_links = r.internal_links + r.external_links
           /\ r.broken_links = Len(r.broken_link_details)
           /\ r.broken_links <= r.total_links

C24_LinksCountedOnce == [] C24_Counts /\ [][C24_Step]_vars

\* the page of the example has been checked: 5 links, 3 internal and 2
\* external, one of them found broken
C24_Witness ==
    /\ probe.call = "broken_links"
    /\ probe.pc = "returned"
    /\ probe.result.total_links = 5
    /\ probe.result.internal_links = 3
    /\ probe.result.external_links = 2
    /\ probe.result.broken_links = 1

(***************************************************************************)
(* Properties of the order of the writes of a run.                         *)
(***************************************************************************)
\* the kinds of the result rows stored for a site
SavedKinds(s) == { c.kind : c \in { x \in checks : x.site_id = s } }

\* C25: when last_checked_at of a site has been set by its run, the result
\* of every probe of that run is in storage: a row of each kind whose block
\* the run entered.
C25_ResultsBeforeLastCheckedAt ==
    \A s \in SiteIds :
      sites[s].last_checked_at # NULL
      => \A kind \in KindSet : Runs(sites[s], kind) => kind \in SavedKinds(s)

\* a run of four probes, one of which raised an alert, has just set
\* last_checked_at
C25_Witness ==
    /\ workers["w1"].task = "check_site"
    /\ workers["w1"].pc = "done"
    /\ sites[1].last_checked_at = Some(now)
    /\ SavedKinds(1) = {"uptime", "performance", "broken_links", "seo"}
    /\ DOMAIN alerts # {}

\* C26: within one check_broken_links call the link checks in flight never
\* exceed the configured maximum; a link check goes from pending to in
\* flight to finished and never back, and when the call returns every
\* distinct link has been checked, once.
C26_Inv ==
    /\ ( probe.call = "broken_links" /\ probe.pc = "checking" )
       => /\ Cardinality(InFlight) <= probe.max_concurrent
          /\ probe.semaphore = probe.max_concurrent - Cardinality(InFlight)
    /\ ( probe.call = "broken_links" /\ probe.pc = "returned"
         /\ probe.result.error_message = NULL )
       => /\ \A i \in DOMAIN probe.links : probe.status[i] \in {"ok", "broken"}
          /\ \A i, j \in DOMAIN probe.links :
               probe.links[i] = probe.links[j] => i = j
          /\ Len(probe.links) = probe.result.total_links

C26_Step ==
    ( /\ probe.call = "broken_links" /\ probe.pc = "checking"
      /\ probe'.call = "broken_links" /\ probe'.pc \in {"checking", "returned"} )
    => \A i \in DOMAIN probe.links :
         probe'.status[i] # probe.status[i]
         => \/ probe.status[i] = "pending" /\ probe'.status[i] = "in_flight"
            \/ probe.status[i] = "in_flight" /\ probe'.status[i] \in {"ok", "broken"}

C26_BoundedLinkChecks == [] C26_Inv /\ [][C26_Step]_vars

\* with a maximum of 2, two link checks are in flight, one has finished
\* and two links wait for the semaphore
C26_Witness ==
    /\ probe.call = "broken_links"
    /\ probe.pc = "checking"
    /\ probe.max_concurrent = 2
    /\ Cardinality(InFlight) = 2
    /\ probe.semaphore = 0
    /\ Len(probe.links) = 5
    /\ probe.started = 3

\* the tasks a step added to the broker
Sent == { queue'[i] : i \in (Len(queue) + 1)..Len(queue') }

\* C27 as stated: an error at one unit of work does not abort another.
\* A run of check_all_sites sends a check_site task for every due site but
\* the one, if any, at which its loop raised; a notification attempt that
\* fails leaves the alert stored with its status unchanged.
C27_Step_AsStated ==
    /\ last_run_at' # last_run_at
       => \E failed \in SUBSET DispatchedSites :
            /\ Cardinality(failed) <= 1
            /\ DispatchedSites \ failed \subseteq { t.arg : t \in Sent }
    /\ \A w \in Workers :
         send_alert_notifications_send(w, FALSE)
         => \A a \in DOMAIN alerts :
              a \in DOMAIN alerts' /\ alerts'[a].status = alerts[a].status

C27_ErrorsDoNotSpread == [][C27_Step_AsStated]_vars

\* the alerts of the pair exist and all of them are RESOLVED
OnlyResolved(site_id, alert_type) ==
    LET rows == { a \in DOMAIN alerts : /\ alerts[a].site_id = site_id
                                        /\ alerts[a].alert_type = alert_type }
    IN  rows # {} /\ \A a \in rows : alerts[a].status = RESOLVED

\* C28: when create_alert is called for a pair whose alerts are all
\* RESOLVED, its query finds nothing and the call goes on to the insert;
\* the insert adds a new OPEN row for the pair, sends its notification
\* task, and leaves every row that existed, the RESOLVED ones included,
\* as it was.
C28_Step ==
    \A w \in Workers :
      /\ ( /\ create_alert_lookup(w)
           /\ OnlyResolved(workers[w].arg, Kinds[workers[w].k]) )
         => workers'[w].pc = "insert"
      /\ create_alert_insert(w)
         => /\ DOMAIN alerts' = DOMAIN alerts \cup {next_alert_id}
            /\ next_alert_id \notin DOMAIN alerts
            /\ alerts'[next_alert_id].status = OPEN
            /\ alerts'[next_alert_id].site_id = workers[w].arg
            /\ alerts'[next_alert_id].alert_type = Kinds[workers[w].k]
            /\ NotifyTask(next_alert_id) \in Sent
            /\ \A a \in DOMAIN alerts : alerts'[a] = alerts[a]

C28_RecurrenceCreatesNewAlert == [][C28_Step]_vars

\* the first alert of site 1 was resolved, the condition came back at the
\* next run, and the second alert is OPEN with its notification sent to
\* the broker
C28_Witness ==
    /\ 1 \in DOMAIN alerts /\ 2 \in DOMAIN alerts
    /\ alerts[1].status = RESOLVED
    /\ alerts[1].resolved_by = Some(1)
    /\ alerts[2].status = OPEN
    /\ alerts[2].site_id = alerts[1].site_id
    /\ alerts[2].alert_type = alerts[1].alert_type
    /\ \E i \in DOMAIN queue : queue[i] = NotifyTask(2)

\* the sites with a check_site run in progress on a worker
RunningSites ==
    { workers[w].arg : w \in { v \in Workers : workers[v].task = "check_site" } }

\* the workers running check_site for a site
RunsOf(s) ==
    { w \in Workers : workers[w].task = "check_site" /\ workers[w].arg = s }

\* C29 as stated: at most one check_site run of a site is in progress at
\* any time, and a run of check_all_sites does not dispatch a site whose
\* earlier dispatched check is still waiting in the broker or running.
C29_Inv == \A s \in SiteIds : Cardinality(RunsOf(s)) <= 1

C29_Step ==
    check_all_sites
    => \A s \in DispatchedSites :
         /\ s \notin RunningSites
         /\ \A i \in DOMAIN queue : queue[i] # CheckSiteTask(s)

C29_OneRunPerSite == [] C29_Inv /\ [][C29_Step]_vars

\* C30 as stated: the timestamps of every alert agree with its status:
\* resolved_at and resolved_by are set exactly when the status is RESOLVED,
\* acknowledged_at is set when the status is ACKNOWLEDGED, and an OPEN
\* alert has neither acknowledged_at nor resolved_at.
C30_TimestampsAgreeWithStatus ==
    \A a \in DOMAIN alerts :
      /\ ( alerts[a].resolved_at # NULL /\ alerts[a].resolved_by # NULL )
           <=> alerts[a].status = RESOLVED
      /\ alerts[a].status = ACKNOWLEDGED => alerts[a].acknowledged_at # NULL
      /\ alerts[a].status = OPEN
           => alerts[a].acknowledged_at = NULL /\ alerts[a].resolved_at = NULL

====
